---- MODULE Spec2Model ----
(***************************************************************************)
(* Model of the ldap3_client command line library (src/src/lib.rs) and of  *)
(* the `ldap` front-end (src/src/ldap.rs).                                 *)
(*                                                                         *)
(* One sequential caller drives one LdapClient.  The caller is either the  *)
(* `ldap` binary (driver = "ldap": argument handling, new, one bind, exit) *)
(* or an arbitrary consumer of the public API (driver = "lib": new, then   *)
(* any number of bind calls on the same client, then drop).                *)
(* The network, the resolver, the TLS library and the server are the       *)
(* environment: each of their answers is a nondeterministic choice.        *)
(* pc is the position of the caller; a step ends at each call into the     *)
(* environment (resolve, connect/timer race, handshake, send, next).       *)
(***************************************************************************)
EXTENDS Integers, Sequences, FiniteSets, TLC

(* ---------------------------- bounds ----------------------------------- *)

\* longest address list the resolver returns; addresses are 1..MaxAddrs
MaxAddrs == 3
\* number of bind calls the library consumer makes on one client
MaxBinds == 3

(* ------------------------- program constants --------------------------- *)

MaxI32 == 2147483647
MinI32 == -MaxI32 - 1

None == <<>>
Some(x) == <<x>>

\* enum LdapError, #[repr(i32)]: `e as i32`
ErrCode(e) ==
    CASE e = "InvalidUrl" -> -1
      [] e = "LdapiNotSupported" -> -2
      [] e = "UseCldapTool" -> -3
      [] e = "ResolverError" -> -4
      [] e = "ConnectError" -> -5
      [] e = "TlsError" -> -6
      [] e = "PasswordNotFound" -> -7
      [] e = "AnonymousInvalidState" -> -8
      [] e = "TransportWriteError" -> -9
      [] e = "TransportReadError" -> -10
      [] e = "InvalidProtocolState" -> -11
      [] e = "InvalidCredentials" -> 49

\* LdapResult<T>
Ok(v) == [ok |-> TRUE, val |-> v]
Err(e) == [ok |-> FALSE, err |-> e]
IsErr(r) == r # None /\ ~r[1].ok
IsOk(r) == r # None /\ r[1].ok

(* ------------------------------ inputs --------------------------------- *)

Schemes == {"ldap", "ldaps", "ldapi", "cldap", "http"}
UrlPorts == {None, Some(3890)}
Urls == [scheme : Schemes, port : UrlPorts]

\* the command line of the `ldap` binary (struct LdapOpt)
LdapOpts ==
    [url : Urls, json : BOOLEAN,
     bind_dn : {None, Some("cn=admin")},
     bind_passwd : {None, Some("bad")}]

\* what the resolver can answer: address lists without repetition
Ips == 1..MaxAddrs
IpLists ==
    {s \in UNION {[1..n -> Ips] : n \in 0..MaxAddrs} :
        \A i, j \in DOMAIN s : i # j => s[i] # s[j]}

\* LdapResultCode values a server answers with (0, 49, and two unmapped ones)
ResultCodes == {"Success", "InvalidCredentials", "NoSuchObject", "Busy"}

\* LdapOp variants in response position
LdapOps ==
    [tag : {"BindResponse"}, code : ResultCodes]
    \cup [tag : {"SearchResultEntry", "UnbindRequest"}]

\* the i32 after n, wrapping at i32::MAX
WrapSucc(n) == IF n = MaxI32 THEN MinI32 ELSE n + 1

\* what the server answers to the request with message id `id`: a message
\* echoing the id, or one carrying another id
Responses(id) == [msgid : {id, WrapSucc(id)}, op : LdapOps]

\* Option<Result<LdapMsg, io::Error>> as yielded by FramedRead::next
ReadItems(id) ==
    {[kind |-> "None"], [kind |-> "Err"]}
    \cup {[kind |-> "Some", msg |-> m] : m \in Responses(id)}

(* ------------------------------- state --------------------------------- *)

VARIABLES
    driver,         \* "ldap": the ldap binary; "lib": a library consumer
    opt,            \* command line (url is also the argument of new)
    pc,             \* position of the caller
    bind_dn,        \* ldap.rs: bind_dn / argument dn of bind
    bind_passwd,    \* ldap.rs: bind_passwd / argument pw of bind
    need_tls,       \* new: need_tls
    addrs,          \* new: addrs, the resolved socket addresses
    aiter,          \* new: aiter, the addresses not yet taken
    tcpstream,      \* new: the connected stream (its address), or None
    client,         \* the LdapClient, or None
    sock,           \* the TCP socket: "none", "open", "closed"
    msg,            \* bind: the request built by the current/last bind
    resp,           \* bind: what read_transport.next() yielded
    new_result,     \* return value of LdapClient::new
    bind_result,    \* return value of the last bind
    exit_code,      \* argument of std::process::exit, 0 at the end of main
    resolves,       \* number of socket_addrs calls
    attempts,       \* log of connect attempts: <<address, outcome>>
    handshakes,     \* number of SslStream::connect calls
    tls_step,       \* new: how the TLS set-up of the stream ended, or None
    sent,           \* log of the messages handed to write_transport.send
    reads,          \* number of read_transport.next calls
    nbinds          \* number of bind calls

vars ==
    <<driver, opt, pc, bind_dn, bind_passwd, need_tls, addrs, aiter,
      tcpstream, client, sock, msg, resp, new_result, bind_result, exit_code,
      resolves, attempts, handshakes, tls_step, sent, reads, nbinds>>

callerVars == <<driver, opt, bind_dn, bind_passwd, exit_code>>
newVars == <<need_tls, addrs, aiter, tcpstream, new_result, tls_step>>
bindVars == <<msg, resp, bind_result, nbinds>>
netLog == <<resolves, attempts, handshakes, sent, reads>>

Init ==
    /\ driver \in {"ldap", "lib"}
    /\ opt \in LdapOpts
    /\ driver = "lib" =>
         ~opt.json /\ opt.bind_dn = None /\ opt.bind_passwd = None
    /\ pc = IF driver = "ldap" THEN "main" ELSE "new_scheme"
    /\ bind_dn = ""
    /\ bind_passwd = ""
    /\ need_tls = FALSE
    /\ addrs = <<>>
    /\ aiter = <<>>
    /\ tcpstream = None
    /\ client = None
    /\ sock = "none"
    /\ msg = None
    /\ resp = None
    /\ new_result = None
    /\ bind_result = None
    /\ exit_code = None
    /\ resolves = 0
    /\ attempts = <<>>
    /\ handshakes = 0
    /\ tls_step = None
    /\ sent = <<>>
    /\ reads = 0
    /\ nbinds = 0

(* ------------------------- ldap.rs: main, part 1 ----------------------- *)

\* rpassword::prompt_password_stderr
PromptResults == {Ok("typed"), Err("io")}

\* MainCredentials without the rejection of a password given without a DN
MainCredentials_nocheck(o, prompt) ==
    IF o.bind_dn # None
    THEN IF o.bind_passwd # None
         THEN Ok(<<o.bind_dn[1], o.bind_passwd[1]>>)
         ELSE IF o.json
              THEN Err("PasswordNotFound")
              ELSE IF prompt.ok
                   THEN Ok(<<o.bind_dn[1], prompt.val>>)
                   ELSE Err("PasswordNotFound")
    ELSE IF o.bind_passwd # None
         THEN Ok(<<"", o.bind_passwd[1]>>)
         ELSE Ok(<<"", "">>)

\* ldap.rs 14-50: the (bind_dn, bind_passwd) pair, or the error main exits with
MainCredentials(o, prompt) ==
    IF o.bind_dn # None
    THEN IF o.bind_passwd # None
         THEN Ok(<<o.bind_dn[1], o.bind_passwd[1]>>)
         ELSE IF o.json
              THEN Err("PasswordNotFound")
              ELSE IF prompt.ok
                   THEN Ok(<<o.bind_dn[1], prompt.val>>)
                   ELSE Err("PasswordNotFound")
    ELSE IF o.bind_passwd # None
         THEN Err("AnonymousInvalidState")
         ELSE Ok(<<"", "">>)

\* process::exit ends the process; the OS closes its socket
SockAfterExit(s) == IF s = "open" THEN "closed" ELSE s

MainArgs ==
    /\ pc = "main"
    /\ \E prompt \in PromptResults :
         LET c == MainCredentials(opt, prompt) IN
         IF c.ok
         THEN /\ bind_dn' = c.val[1]
              /\ bind_passwd' = c.val[2]
              /\ pc' = "new_scheme"
              /\ UNCHANGED exit_code
         ELSE /\ exit_code' = Some(ErrCode(c.err))
              /\ pc' = "exited"
              /\ UNCHANGED <<bind_dn, bind_passwd>>
    /\ UNCHANGED <<driver, opt, newVars, client, sock, bindVars, netLog>>

(* --------------------------- LdapClient::new --------------------------- *)

\* SchemeDispatch with the "cldap" arm missing from the rejections
SchemeDispatch_cldap_plain(scheme) ==
    CASE scheme = "ldapi" -> Err("LdapiNotSupported")
      [] scheme \in {"ldap", "cldap"} -> Ok(FALSE)
      [] scheme = "ldaps" -> Ok(TRUE)
      [] OTHER -> Err("InvalidUrl")

\* lib.rs 185-191: need_tls, or the error new returns at once
SchemeDispatch(scheme) ==
    CASE scheme = "ldapi" -> Err("LdapiNotSupported")
      [] scheme = "cldap" -> Err("UseCldapTool")
      [] scheme = "ldap" -> Ok(FALSE)
      [] scheme = "ldaps" -> Ok(TRUE)
      [] OTHER -> Err("InvalidUrl")

NewScheme ==
    /\ pc = "new_scheme"
    /\ LET r == SchemeDispatch(opt.url.scheme) IN
       IF r.ok
       THEN /\ need_tls' = r.val
            /\ pc' = "new_resolve"
            /\ UNCHANGED new_result
       ELSE /\ new_result' = Some(Err(r.err))
            /\ pc' = "new_ret"
            /\ UNCHANGED need_tls
    /\ UNCHANGED <<callerVars, addrs, aiter, tcpstream, client, sock,
                   bindVars, netLog, tls_step>>

\* DefaultPort without the TLS case
DefaultPort_plain(tls) == 389

\* lib.rs 201: the closure handing the default port to socket_addrs
DefaultPort(tls) == IF tls THEN 636 ELSE 389

\* Url::socket_addrs: every resolved ip with the url's port or the default
socket_addrs(url, tls, ips) ==
    [i \in 1..Len(ips) |->
        [ip |-> ips[i],
         port |-> IF url.port # None THEN url.port[1] ELSE DefaultPort(tls)]]

\* the resolver's answers: an error, or a (possibly empty) list
ResolverAnswers == {Err("resolve")} \cup {Ok(l) : l \in IpLists}

NewResolve ==
    /\ pc = "new_resolve"
    /\ resolves' = resolves + 1
    /\ \E ans \in ResolverAnswers :
         IF ans.ok /\ ans.val # <<>>
         THEN /\ addrs' = socket_addrs(opt.url, need_tls, ans.val)
              /\ aiter' = addrs'
              /\ pc' = "new_connect"
              /\ UNCHANGED new_result
         ELSE /\ new_result' = Some(Err("ResolverError"))
              /\ pc' = "new_ret"
              /\ UNCHANGED <<addrs, aiter>>
    /\ UNCHANGED <<callerVars, need_tls, tcpstream, client, sock, bindVars,
                   attempts, handshakes, tls_step, sent, reads>>

\* aiter_next taking the addresses from the back (next_back)
aiter_next_back(it) ==
    IF it = <<>>
    THEN [item |-> None, rest |-> <<>>]
    ELSE [item |-> Some(it[Len(it)]), rest |-> SubSeq(it, 1, Len(it) - 1)]

\* aiter_next giving up after the first address
aiter_next_once(it) ==
    IF it = <<>>
    THEN [item |-> None, rest |-> <<>>]
    ELSE [item |-> Some(Head(it)), rest |-> <<>>]

\* aiter_next that never advances
aiter_next_stuck(it) ==
    IF it = <<>>
    THEN [item |-> None, rest |-> <<>>]
    ELSE [item |-> Some(Head(it)), rest |-> it]

\* Iterator::next on addrs.into_iter()
aiter_next(it) ==
    IF it = <<>>
    THEN [item |-> None, rest |-> <<>>]
    ELSE [item |-> Some(Head(it)), rest |-> Tail(it)]

\* tokio::select! of TcpStream::connect(addr) against sleep(timeout)
ConnectOutcomes == {"ok", "err", "timeout"}

\* lib.rs 216-241: one turn of the connect loop
NewConnect ==
    /\ pc = "new_connect"
    /\ LET n == aiter_next(aiter) IN
       IF n.item = None
       THEN /\ new_result' = Some(Err("ConnectError"))
            /\ pc' = "new_ret"
            /\ UNCHANGED <<aiter, tcpstream, sock, attempts>>
       ELSE \E o \in ConnectOutcomes :
              /\ aiter' = n.rest
              /\ attempts' = Append(attempts, [addr |-> n.item[1], outcome |-> o])
              /\ IF o = "ok"
                 THEN /\ tcpstream' = n.item
                      /\ sock' = "open"
                      /\ pc' = "new_transport"
                 ELSE UNCHANGED <<tcpstream, sock, pc>>
              /\ UNCHANGED new_result
    /\ UNCHANGED <<callerVars, need_tls, addrs, client, bindVars,
                   resolves, handshakes, tls_step, sent, reads>>

\* SslConnector::builder, Ssl::new + SslStream::new, SslStream::connect
TlsOutcomes == {"builder_err", "ssl_err", "handshake_err", "ok"}

\* Transports with the write half always framed as Plain
Transports_crossed(variant, stream) ==
    [write_transport |-> [variant |-> "Plain", stream |-> stream],
     read_transport |-> [variant |-> variant, stream |-> stream]]

\* lib.rs 244-278: both halves of the split stream
Transports(variant, stream) ==
    [write_transport |-> [variant |-> variant, stream |-> stream],
     read_transport |-> [variant |-> variant, stream |-> stream]]

\* NewClient with the counter starting at 0
NewClient_zero(t) ==
    [read_transport |-> t.read_transport,
     write_transport |-> t.write_transport,
     msg_counter |-> 0]

\* lib.rs 280-287
NewClient(t) ==
    [read_transport |-> t.read_transport,
     write_transport |-> t.write_transport,
     msg_counter |-> 1]

\* tls_upgrade with the result of the handshake dropped (no `?` on it)
tls_upgrade_unchecked(t) ==
    IF t \in {"ok", "handshake_err"} THEN Ok("tlsstream") ELSE Err("TlsError")

\* lib.rs 245-264: every map_err of the TLS set-up ends in TlsError
tls_upgrade(t) ==
    IF t = "ok" THEN Ok("tlsstream") ELSE Err("TlsError")

\* lib.rs 244-288: optional TLS handshake, split, construction
NewTransport ==
    /\ pc = "new_transport"
    /\ pc' = "new_ret"
    /\ IF need_tls
       THEN \E t \in TlsOutcomes :
              /\ handshakes' =
                   IF t \in {"handshake_err", "ok"} THEN handshakes + 1
                   ELSE handshakes
              /\ tls_step' = Some(t)
              /\ LET u == tls_upgrade(t) IN
                 IF u.ok
                 THEN /\ client' = Some(NewClient(Transports("Tls", tcpstream[1])))
                      /\ new_result' = Some(Ok("client"))
                      /\ UNCHANGED sock
                 ELSE /\ new_result' = Some(u)
                      /\ sock' = "closed"
                      /\ UNCHANGED client
       ELSE /\ client' = Some(NewClient(Transports("Plain", tcpstream[1])))
            /\ new_result' = Some(Ok("client"))
            /\ UNCHANGED <<sock, handshakes, tls_step>>
    /\ UNCHANGED <<callerVars, need_tls, addrs, aiter, tcpstream, bindVars,
                   resolves, attempts, sent, reads>>

(* ------------------------- the callers of new -------------------------- *)

\* ldap.rs 52-68: exit on error, otherwise call bind
MainNewRet ==
    /\ pc = "new_ret"
    /\ driver = "ldap"
    /\ IF IsErr(new_result)
       THEN /\ exit_code' = Some(ErrCode(new_result[1].err))
            /\ sock' = SockAfterExit(sock)
            /\ pc' = "exited"
            /\ UNCHANGED <<msg, resp, bind_result, nbinds>>
       ELSE /\ nbinds' = nbinds + 1
            /\ msg' = None
            /\ resp' = None
            /\ bind_result' = None
            /\ pc' = "bind_send"
            /\ UNCHANGED <<exit_code, sock>>
    /\ UNCHANGED <<driver, opt, bind_dn, bind_passwd, newVars, client, netLog>>

\* a library consumer receives the result of new
LibNewRet ==
    /\ pc = "new_ret"
    /\ driver = "lib"
    /\ pc' = IF IsErr(new_result) THEN "done" ELSE "ready"
    /\ UNCHANGED <<callerVars, newVars, client, sock, bindVars, netLog>>

LibCredentials == {<<"", "">>, <<"cn=admin", "bad">>}

\* a library consumer calls bind (a first bind or a rebind)
LibBind ==
    /\ pc = "ready"
    /\ nbinds < MaxBinds
    /\ \E c \in LibCredentials :
         /\ bind_dn' = c[1]
         /\ bind_passwd' = c[2]
    /\ nbinds' = nbinds + 1
    /\ msg' = None
    /\ resp' = None
    /\ bind_result' = None
    /\ pc' = "bind_send"
    /\ UNCHANGED <<driver, opt, exit_code, newVars, client, sock, netLog>>

\* a library consumer drops the client: both halves and the socket go
LibDrop ==
    /\ pc = "ready"
    /\ client' = None
    /\ sock' = "closed"
    /\ pc' = "done"
    /\ UNCHANGED <<callerVars, newVars, bindVars, netLog>>

(* --------------------------- LdapClient::bind -------------------------- *)

\* get_next_msgid advancing the counter by two
get_next_msgid_skip(counter) ==
    [msgid |-> counter, msg_counter |-> counter + 2, overflow |-> FALSE]

\* get_next_msgid without the increment
get_next_msgid_stuck(counter) ==
    [msgid |-> counter, msg_counter |-> counter, overflow |-> FALSE]

\* lib.rs 290-294: the id returned and the counter left behind.  `+= 1` on an
\* i32 at i32::MAX overflows: it wraps in a release build and panics in a
\* build with overflow checks.
get_next_msgid(counter) ==
    [msgid |-> counter,
     msg_counter |-> WrapSucc(counter),
     overflow |-> counter = MaxI32]

\* lib.rs 301-308
BindRequestMsg(msgid, dn, pw) ==
    [msgid |-> msgid,
     op |-> [tag |-> "BindRequest", dn |-> dn,
             cred |-> [tag |-> "Simple", pw |-> pw]],
     ctrl |-> <<>>]

\* LdapWriteTransport_send with the sink's error swallowed
LdapWriteTransport_send_swallow(w) == Ok("unit")

\* lib.rs 136-149: LdapWriteTransport::send, given what the sink answered
LdapWriteTransport_send(w) ==
    IF w = "ok" THEN Ok("unit") ELSE Err("TransportWriteError")

SinkOutcomes == {"ok", "err"}

\* the build profiles that decide what an overflowing `+= 1` does
Builds(overflow) == IF overflow THEN {"release", "debug"} ELSE {"release"}

\* lib.rs 297-310: allocate the id, build the request, send it
BindSend ==
    /\ pc = "bind_send"
    /\ LET n == get_next_msgid(client[1].msg_counter)
           m == BindRequestMsg(n.msgid, bind_dn, bind_passwd)
       IN \E build \in Builds(n.overflow), w \in SinkOutcomes :
            IF n.overflow /\ build = "debug"
            THEN /\ pc' = "panicked"
                 /\ UNCHANGED <<client, msg, bind_result, sent>>
            ELSE /\ client' = Some([client[1] EXCEPT !.msg_counter = n.msg_counter])
                 /\ msg' = Some(m)
                 /\ sent' = Append(sent, [msgid |-> m.msgid, op |-> m.op.tag,
                                          result |-> w])
                 /\ LET r == LdapWriteTransport_send(w) IN
                    IF r.ok
                    THEN /\ pc' = "bind_read"
                         /\ UNCHANGED bind_result
                    ELSE /\ bind_result' = Some(r)
                         /\ pc' = "bind_ret"
    /\ UNCHANGED <<callerVars, newVars, sock, resp, nbinds,
                   resolves, attempts, handshakes, reads>>

\* LdapReadTransport_next with end-of-stream reported as a protocol error
LdapReadTransport_next_eof(item) ==
    CASE item.kind = "Err" -> Err("TransportReadError")
      [] item.kind = "None" -> Err("InvalidProtocolState")
      [] item.kind = "Some" -> Ok(item.msg)

\* lib.rs 151-168: LdapReadTransport::next, given what the stream yielded
LdapReadTransport_next(item) ==
    CASE item.kind = "Err" -> Err("TransportReadError")
      [] item.kind = "None" -> Err("TransportReadError")
      [] item.kind = "Some" -> Ok(item.msg)

\* LdapError_from with InvalidCredentials collapsed to the generic error
LdapError_from_generic(code) ==
    IF code = "InvalidCredentials" THEN Some("InvalidProtocolState") ELSE None

\* lib.rs 59-66: From<LdapResultCode> for LdapError; None is unimplemented!()
LdapError_from(code) ==
    IF code = "InvalidCredentials" THEN Some("InvalidCredentials") ELSE None

\* bind_match without the test of the result code
bind_match_nocode(m) ==
    IF m.op.tag = "BindResponse"
    THEN [panic |-> FALSE, ret |-> Ok("unit")]
    ELSE [panic |-> FALSE, ret |-> Err("InvalidProtocolState")]

\* bind_match that lets every other variant through
bind_match_anyop(m) ==
    IF m.op.tag = "BindResponse"
    THEN IF m.op.code = "Success"
         THEN [panic |-> FALSE, ret |-> Ok("unit")]
         ELSE [panic |-> FALSE, ret |-> Err("InvalidCredentials")]
    ELSE [panic |-> FALSE, ret |-> Ok("unit")]

\* lib.rs 316-330: the closure given to and_then
bind_match(m) ==
    IF m.op.tag = "BindResponse"
    THEN IF m.op.code = "Success"
         THEN [panic |-> FALSE, ret |-> Ok("unit")]
         ELSE LET e == LdapError_from(m.op.code) IN
              IF e = None
              THEN [panic |-> TRUE]
              ELSE [panic |-> FALSE, ret |-> Err(e[1])]
    ELSE [panic |-> FALSE, ret |-> Err("InvalidProtocolState")]

\* lib.rs 313-330: next().await.and_then(...)
bind_response(item) ==
    LET r == LdapReadTransport_next(item) IN
    IF r.ok THEN bind_match(r.val) ELSE [panic |-> FALSE, ret |-> r]

\* lib.rs 312-331: read one item and turn it into the result of bind
BindRead ==
    /\ pc = "bind_read"
    /\ reads' = reads + 1
    /\ \E item \in ReadItems(msg[1].msgid) :
         /\ resp' = Some(item)
         /\ LET out == bind_response(item) IN
            IF out.panic
            THEN /\ pc' = "panicked"
                 /\ UNCHANGED bind_result
            ELSE /\ bind_result' = Some(out.ret)
                 /\ pc' = "bind_ret"
    /\ UNCHANGED <<callerVars, newVars, client, sock, msg, nbinds,
                   resolves, attempts, handshakes, sent>>

(* ------------------------- the callers of bind ------------------------- *)

\* ldap.rs 68-84: exit with the error's code; otherwise the (empty) action
\* runs, main returns and the client is dropped
MainBindRet ==
    /\ pc = "bind_ret"
    /\ driver = "ldap"
    /\ IF IsErr(bind_result)
       THEN /\ exit_code' = Some(ErrCode(bind_result[1].err))
            /\ UNCHANGED client
       ELSE /\ exit_code' = Some(0)
            /\ client' = None
    /\ sock' = "closed"
    /\ pc' = "exited"
    /\ UNCHANGED <<driver, opt, bind_dn, bind_passwd, newVars, bindVars, netLog>>

\* a library consumer receives the result of bind and keeps the client
LibBindRet ==
    /\ pc = "bind_ret"
    /\ driver = "lib"
    /\ pc' = "ready"
    /\ UNCHANGED <<callerVars, newVars, client, sock, bindVars, netLog>>

Next ==
    \/ MainArgs
    \/ NewScheme
    \/ NewResolve
    \/ NewConnect
    \/ NewTransport
    \/ MainNewRet
    \/ LibNewRet
    \/ LibBind
    \/ LibDrop
    \/ BindSend
    \/ BindRead
    \/ MainBindRet
    \/ LibBindRet

Spec == Init /\ [][Next]_vars

(* ------------------- a client late in its life (i32 edge) -------------- *)

\* the urls new accepts without an explicit port
WrapUrls == [scheme : {"ldap", "ldaps"}, port : {None}]

\* A client of a library consumer that has already been handed the ids
\* 1 .. i32::MAX - 2: connected to its one address, counter at i32::MAX - 1,
\* the consumer between two bind calls.  The logs and nbinds count from here.
InitWrap ==
    /\ driver = "lib"
    /\ opt \in [url : WrapUrls, json : {FALSE}, bind_dn : {None},
                bind_passwd : {None}]
    /\ pc = "ready"
    /\ bind_dn = ""
    /\ bind_passwd = ""
    /\ need_tls = SchemeDispatch(opt.url.scheme).val
    /\ addrs = socket_addrs(opt.url, need_tls, <<1>>)
    /\ aiter = <<>>
    /\ tcpstream = Some(addrs[1])
    /\ client =
         Some([NewClient(Transports(IF need_tls THEN "Tls" ELSE "Plain",
                                    addrs[1]))
               EXCEPT !.msg_counter = MaxI32 - 1])
    /\ sock = "open"
    /\ msg = None
    /\ resp = None
    /\ new_result = Some(Ok("client"))
    /\ bind_result = None
    /\ exit_code = None
    /\ resolves = 1
    /\ attempts = <<[addr |-> addrs[1], outcome |-> "ok"]>>
    /\ handshakes = IF need_tls THEN 1 ELSE 0
    /\ tls_step = IF need_tls THEN Some("ok") ELSE None
    /\ sent = <<>>
    /\ reads = 0
    /\ nbinds = 0

NextWrap ==
    \/ LibBind
    \/ LibDrop
    \/ BindSend
    \/ BindRead
    \/ LibBindRet

SpecWrap == InitWrap /\ [][NextWrap]_vars

(* ------------------ LdapClient::new on its own, with fairness ---------- *)

NextNew ==
    \/ MainArgs
    \/ NewScheme
    \/ NewResolve
    \/ NewConnect
    \/ NewTransport

\* every turn of the connect loop ends: the connect attempt completes or the
\* sleep(timeout) it is raced against fires
SpecNew == Init /\ [][NextNew]_vars /\ WF_vars(NewConnect)

(* ------------------------------ properties ----------------------------- *)

\* the message bind read, if it read one
RespIsMsg == resp # None /\ resp[1].kind = "Some"
RespIsBindResponse(codes) ==
    /\ RespIsMsg
    /\ resp[1].msg.op.tag = "BindResponse"
    /\ resp[1].msg.op.code \in codes

\* C1: a bind that read a response whose message_id differs from the id it
\* sent returns InvalidProtocolState.
C1_MismatchedIdRejected ==
    (/\ pc = "bind_ret"
     /\ RespIsMsg
     /\ resp[1].msg.msgid # msg[1].msgid)
    => bind_result = Some(Err("InvalidProtocolState"))

\* C2: when bind has returned an error the socket is already closed.
C2_ClosedAfterBindError ==
    (pc = "bind_ret" /\ IsErr(bind_result)) => sock = "closed"

\* C3: a BindResponse with an unmapped result code makes bind return
\* InvalidProtocolState, and bind does not panic.
C3_UnmappedCodeIsProtocolState ==
    RespIsBindResponse(ResultCodes \ {"Success", "InvalidCredentials"})
    => /\ pc # "panicked"
       /\ bind_result = Some(Err("InvalidProtocolState"))

\* C4: the k-th bind call on a client hands a BindRequest with message id k
\* to the transport, so the ids sent are 1, 2, 3, ... without repetition.
C4_MsgIdsSequential ==
    /\ \A k \in DOMAIN sent : sent[k].msgid = k /\ sent[k].op = "BindRequest"
    /\ Len(sent) = IF pc = "bind_send" THEN nbinds - 1 ELSE nbinds

C4_Witness ==
    /\ pc = "bind_ret"
    /\ Len(sent) = 3
    /\ sent[1].result = "err"
    /\ sent[3].msgid = 3

\* C5: bind returns success exactly when the response it read is a
\* BindResponse with code Success; the front-end ends with 0 only then.
C5_SuccessIffBindSuccess ==
    /\ IsOk(bind_result) <=> RespIsBindResponse({"Success"})
    /\ exit_code = Some(0) => RespIsBindResponse({"Success"})

C5_Witness ==
    /\ pc = "bind_ret"
    /\ RespIsBindResponse({"Success"})
    /\ IsOk(bind_result)

\* C6: a response of any variant other than BindResponse makes bind return
\* InvalidProtocolState.
C6_OtherVariantRejected ==
    (RespIsMsg /\ resp[1].msg.op.tag # "BindResponse")
    => /\ pc # "panicked"
       /\ bind_result = Some(Err("InvalidProtocolState"))

C6_Witness ==
    /\ pc = "bind_ret"
    /\ RespIsMsg
    /\ resp[1].msg.op.tag = "SearchResultEntry"

\* C7: a BindResponse with code InvalidCredentials makes bind return the
\* error InvalidCredentials, and the ldap front-end exits with 49.
C7_InvalidCredentials ==
    RespIsBindResponse({"InvalidCredentials"})
    => /\ bind_result = Some(Err("InvalidCredentials"))
       /\ ErrCode(bind_result[1].err) = 49
       /\ (driver = "ldap" /\ pc = "exited") => exit_code = Some(49)

C7_Witness ==
    /\ driver = "ldap"
    /\ pc = "exited"
    /\ RespIsBindResponse({"InvalidCredentials"})
    /\ exit_code = Some(49)

\* C8: when the read after a written BindRequest yields an error or the end
\* of the stream, bind returns TransportReadError.
C8_ReadFailure ==
    (resp # None /\ resp[1].kind \in {"None", "Err"})
    => /\ sent[Len(sent)].result = "ok"
       /\ bind_result = Some(Err("TransportReadError"))

C8_Witness ==
    /\ pc = "bind_ret"
    /\ resp = Some([kind |-> "None"])
    /\ sent[Len(sent)].result = "ok"

\* the error the spec assigns to a scheme other than ldap and ldaps
SchemeError(scheme) ==
    CASE scheme = "ldapi" -> "LdapiNotSupported"
      [] scheme = "cldap" -> "UseCldapTool"
      [] OTHER -> "InvalidUrl"

\* C9: for a scheme other than ldap and ldaps, new returns the scheme's
\* error and nothing was resolved, connected or handshaken.
C9_BadSchemeNoNetwork ==
    opt.url.scheme \notin {"ldap", "ldaps"}
    => /\ resolves = 0
       /\ attempts = <<>>
       /\ handshakes = 0
       /\ sock = "none"
       /\ client = None
       /\ \/ pc \in {"main", "new_scheme"}
          \/ pc = "exited" /\ new_result = None
          \/ new_result = Some(Err(SchemeError(opt.url.scheme)))

C9_Witness ==
    /\ opt.url.scheme = "cldap"
    /\ pc = "new_ret"
    /\ new_result = Some(Err("UseCldapTool"))

\* C10: connect attempts follow the resolver's order, one per address; the
\* stream is the first address whose attempt succeeded, every earlier
\* address failed or timed out once, and no later address is attempted.
C10_ResolverOrder ==
    /\ Len(attempts) <= Len(addrs)
    /\ \A k \in DOMAIN attempts :
         /\ attempts[k].addr = addrs[k]
         /\ k < Len(attempts) => attempts[k].outcome # "ok"
    /\ aiter = SubSeq(addrs, Len(attempts) + 1, Len(addrs))
    /\ IF tcpstream = None
       THEN \A k \in DOMAIN attempts : attempts[k].outcome # "ok"
       ELSE /\ attempts # <<>>
            /\ attempts[Len(attempts)].outcome = "ok"
            /\ tcpstream[1] = addrs[Len(attempts)]
    /\ client # None =>
         /\ tcpstream # None
         /\ client[1].read_transport.stream = tcpstream[1]
         /\ client[1].write_transport.stream = tcpstream[1]

C10_Witness ==
    /\ client # None
    /\ Len(addrs) = 3
    /\ Len(attempts) = 3
    /\ attempts[1].outcome = "err"
    /\ attempts[2].outcome = "timeout"
    /\ tcpstream = Some(addrs[3])

\* every connect attempt made so far failed or lost against its timer
NoAttemptOk == \A k \in DOMAIN attempts : attempts[k].outcome # "ok"

\* C11: new returns ConnectError exactly when the address list is not empty
\* and every address was attempted without success; while an untried
\* address remains, failures and timeouts leave the loop running.
C11_ConnectErrorIffAllFailed ==
    /\ new_result = Some(Err("ConnectError"))
       => addrs # <<>> /\ Len(attempts) = Len(addrs) /\ NoAttemptOk
    /\ (addrs # <<>> /\ Len(attempts) = Len(addrs) /\ NoAttemptOk
        /\ pc # "new_connect")
       => new_result = Some(Err("ConnectError"))
    /\ (NoAttemptOk /\ Len(attempts) < Len(addrs))
       => pc = "new_connect" /\ new_result = None

C11_Witness ==
    /\ new_result = Some(Err("ConnectError"))
    /\ Len(addrs) = 3
    /\ attempts[1].outcome = "timeout"
    /\ attempts[2].outcome = "err"
    /\ attempts[3].outcome = "timeout"

\* the port the spec assigns to a url
SpecPort(url) ==
    IF url.port # None THEN url.port[1]
    ELSE IF url.scheme = "ldap" THEN 389 ELSE 636

\* C12: a url without a port resolves to port 389 for ldap and 636 for
\* ldaps; an explicit port is used for both schemes.
C12_DefaultPort ==
    /\ \A k \in DOMAIN addrs : addrs[k].port = SpecPort(opt.url)
    /\ \A k \in DOMAIN attempts : attempts[k].addr.port = SpecPort(opt.url)
    /\ tcpstream # None => tcpstream[1].port = SpecPort(opt.url)

C12_Witness ==
    /\ opt.url = [scheme |-> "ldaps", port |-> None]
    /\ tcpstream # None
    /\ tcpstream[1].port = 636

\* C13: the ldap front-end given a password without a DN exits with
\* AnonymousInvalidState (-8) before new is called: nothing is resolved,
\* connected or bound.
C13_AnonymousWithPassword ==
    (driver = "ldap" /\ opt.bind_dn = None /\ opt.bind_passwd # None)
    => /\ pc \in {"main", "exited"}
       /\ pc = "exited" => exit_code = Some(-8)
       /\ new_result = None
       /\ resolves = 0
       /\ attempts = <<>>
       /\ sock = "none"
       /\ nbinds = 0
       /\ sent = <<>>

C13_Witness ==
    /\ driver = "ldap"
    /\ opt.bind_dn = None
    /\ opt.bind_passwd = Some("bad")
    /\ pc = "exited"
    /\ exit_code = Some(-8)

\* C14: the message id allocator never wraps: every id handed to the
\* transport is positive, no id is used twice, and the counter stays positive.
C14_NeverWraps ==
    /\ \A k \in DOMAIN sent : sent[k].msgid > 0
    /\ \A i, j \in DOMAIN sent : i # j => sent[i].msgid # sent[j].msgid
    /\ client # None => client[1].msg_counter > 0

\* C15: both halves of a client have the same variant, Tls for ldaps and
\* Plain for ldap, both come from the stream connected in that call to new,
\* and no later step changes them.
C15_HalvesMatch ==
    /\ [](client # None =>
            LET c == client[1] IN
            /\ c.read_transport.variant = c.write_transport.variant
            /\ c.read_transport.variant =
                 IF opt.url.scheme = "ldaps" THEN "Tls" ELSE "Plain"
            /\ c.read_transport.stream = tcpstream[1]
            /\ c.write_transport.stream = tcpstream[1]
            /\ c.read_transport.variant = "Tls" => tls_step = Some("ok"))
    /\ [][(client # None /\ client' # None) =>
            /\ client'[1].read_transport = client[1].read_transport
            /\ client'[1].write_transport = client[1].write_transport]_vars

C15_Witness ==
    /\ opt.url.scheme = "ldaps"
    /\ pc = "bind_ret"
    /\ nbinds = 2
    /\ client[1].read_transport.variant = "Tls"
    /\ client[1].write_transport.variant = "Tls"

\* C16: for ldaps, new returns a client only after a successful handshake;
\* when the TLS set-up fails new returns TlsError, there is no client and
\* no further address is attempted.
C16_TlsBeforeClient ==
    opt.url.scheme = "ldaps"
    => /\ (client # None \/ IsOk(new_result))
          => tls_step = Some("ok") /\ handshakes = 1
       /\ (tls_step # None /\ tls_step # Some("ok"))
          => /\ new_result = Some(Err("TlsError"))
             /\ client = None
             /\ pc \notin {"new_connect", "new_transport"}
             /\ attempts[Len(attempts)].outcome = "ok"
             /\ nbinds = 0

C16_Witness ==
    /\ opt.url.scheme = "ldaps"
    /\ tls_step = Some("handshake_err")
    /\ new_result = Some(Err("TlsError"))
    /\ Len(addrs) = 3
    /\ Len(attempts) = 1

\* the writes that succeeded
OkWrites == Cardinality({k \in DOMAIN sent : sent[k].result = "ok"})

\* C17: every bind call hands one request to the transport and reads one
\* response only after a successful write; a failed write returns
\* TransportWriteError without a read, so at most one request is in flight.
C17_OneWriteOneRead ==
    /\ Len(sent) = IF pc = "bind_send" THEN nbinds - 1 ELSE nbinds
    /\ reads = IF pc = "bind_read" THEN OkWrites - 1 ELSE OkWrites
    /\ (pc = "bind_ret" /\ sent[Len(sent)].result = "err")
       => /\ bind_result = Some(Err("TransportWriteError"))
          /\ resp = None

C17_Witness ==
    /\ pc = "bind_ret"
    /\ Len(sent) = 2
    /\ sent[1].result = "ok"
    /\ sent[2].result = "err"
    /\ reads = 1

\* C18: every bind call advances msg_counter by one whatever its outcome.
C18_CounterAdvancesPerBind ==
    client # None =>
      client[1].msg_counter = IF pc = "bind_send" THEN nbinds ELSE nbinds + 1

C18_Witness ==
    /\ pc = "bind_ret"
    /\ nbinds = 3
    /\ sent[1].result = "err"
    /\ sent[2].result = "ok"
    /\ bind_result = Some(Err("TransportReadError"))
    /\ client[1].msg_counter = 4

\* C19: the connect phase of new ends: at most one attempt per resolved
\* address is made, and the loop is left with a connected stream or with
\* ConnectError.
C19_ConnectTerminates ==
    /\ [](Len(attempts) <= Len(addrs))
    /\ (pc = "new_connect")
         ~> \/ pc = "new_transport" /\ tcpstream # None
            \/ new_result = Some(Err("ConnectError"))

C19_Witness ==
    /\ pc = "new_transport"
    /\ Len(addrs) = 3
    /\ Len(attempts) = 3
    /\ attempts[1].outcome = "timeout"
    /\ attempts[2].outcome = "timeout"

\* the numeric code the spec's error table gives to an error kind
SpecErrorCode(e) ==
    CASE e = "InvalidUrl" -> -1
      [] e = "LdapiNotSupported" -> -2
      [] e = "UseCldapTool" -> -3
      [] e = "ResolverError" -> -4
      [] e = "ConnectError" -> -5
      [] e = "TlsError" -> -6
      [] e = "PasswordNotFound" -> -7
      [] e = "AnonymousInvalidState" -> -8
      [] e = "TransportWriteError" -> -9
      [] e = "TransportReadError" -> -10
      [] e = "InvalidProtocolState" -> -11
      [] e = "InvalidCredentials" -> 49

\* C20: in the ldap front-end the only request sent on the client is one
\* bind with message id 1 (empty DN and password when neither was given),
\* and an error returned by new or bind ends the process with that error's
\* code before anything else is attempted.
C20_FrontEndBindFirst ==
    driver = "ldap"
    => /\ nbinds <= 1
       /\ Len(sent) <= 1
       /\ sent # <<>>
          => /\ sent[1].msgid = 1
             /\ sent[1].op = "BindRequest"
             /\ msg[1].msgid = 1
       /\ (msg # None /\ opt.bind_dn = None /\ opt.bind_passwd = None)
          => msg[1].op.dn = "" /\ msg[1].op.cred.pw = ""
       /\ IsErr(new_result)
          => /\ pc \in {"new_ret", "exited"}
             /\ nbinds = 0
             /\ pc = "exited"
                => exit_code = Some(SpecErrorCode(new_result[1].err))
       /\ IsErr(bind_result)
          => /\ pc \in {"bind_ret", "exited"}
             /\ pc = "exited"
                => exit_code = Some(SpecErrorCode(bind_result[1].err))

C20_Witness ==
    /\ driver = "ldap"
    /\ opt.bind_dn = None
    /\ opt.bind_passwd = None
    /\ pc = "exited"
    /\ msg # None
    /\ msg[1].msgid = 1
    /\ msg[1].op.dn = ""
    /\ bind_result = Some(Err("TransportReadError"))
    /\ exit_code = Some(-10)
====
